---- MODULE Spec2Model ----
(***************************************************************************)
(* Model of the Matomo health probe (src/lambda/matomo_metrics_collector.py) *)
(* and of the deployment that schedules it.                                *)
(*                                                                         *)
(* lambda_handler is one straight-line function: it reads MATOMO_URL,      *)
(* runs three HTTP checks, each inside its own try/except, and sends the   *)
(* collected samples to CloudWatch with one put_metric_data call.  Every   *)
(* call of the handler has its own frame (its own metrics_data list), so   *)
(* the state is kept per invocation.                                       *)
(***************************************************************************)
EXTENDS Integers, Sequences, FiniteSets, TLC

(* ------------------------------------------------------------------ *)
(* Bounds of the model                                                 *)
(* ------------------------------------------------------------------ *)

\* time.time() readings are drawn from 0..MaxClock (seconds); the wall clock
\* is not monotonic, so the second reading may be below the first.
MaxClock == 2

Clock == 0..MaxClock

\* Invocation frames.  The EventBridge rule fires the function again and
\* again; frame 1 is the one the sequential specification runs.
Invocations == {1, 2}

Sequential == {1}

(* ------------------------------------------------------------------ *)
(* Program constants                                                   *)
(* ------------------------------------------------------------------ *)

LivenessTimeout == 30

InstallTimeout == 10

DatabaseTimeout == 15

\* Duration.minutes
minutes(m) == 60 * m

\* A variant with a function timeout of half a minute.
FunctionTimeoutHalfMinute == minutes(1) \div 2

\* The execution timeout of the deployed function, in seconds.
FunctionTimeout == minutes(2)

None == "<None>"

BaseUrl == "http://203.0.113.10"

Namespace == "Matomo/Application"

\* Final HTTP statuses the server may answer with: two 2xx statuses (200 and
\* a non-200 one) and the error statuses the checks tell apart.
Statuses == {200, 204, 401, 403, 404, 500}

\* What the world does with one request: it answers with a status, or the
\* request fails below HTTP (URLError: timeout, DNS, refused), or urlopen
\* raises some other Exception (e.g. a raw socket/http.client error).
Answers ==
    [kind : {"response"}, status : Statuses]
        \cup {[kind |-> "URLError", status |-> 0],
              [kind |-> "Exception", status |-> 0]}

\* The namespaces of the infrastructure metrics the dashboard and alarms read.
InfraNamespaces == {"AWS/EC2", "AWS/RDS"}

\* The application metrics the dashboard widgets read
\* (MonitoringStack._create_dashboard).
DashboardAppMetrics ==
    {[namespace |-> "Matomo/Application", metric_name |-> "Availability",
      dimensions_map |-> {<<"Application", "Matomo">>}],
     [namespace |-> "Matomo/Application", metric_name |-> "ResponseTime",
      dimensions_map |-> {<<"Application", "Matomo">>}],
     [namespace |-> "Matomo/Application", metric_name |-> "InstallationComplete",
      dimensions_map |-> {<<"Application", "Matomo">>}],
     [namespace |-> "Matomo/Application", metric_name |-> "DatabaseConnectivity",
      dimensions_map |-> {<<"Application", "Matomo">>}]}

\* The application metrics the alarms watch (MonitoringStack._create_alarms).
AlarmAppMetrics ==
    {[namespace |-> "Matomo/Application", metric_name |-> "Availability",
      dimensions_map |-> {<<"Application", "Matomo">>}],
     [namespace |-> "Matomo/Application", metric_name |-> "ResponseTime",
      dimensions_map |-> {<<"Application", "Matomo">>}],
     [namespace |-> "Matomo/Application", metric_name |-> "DatabaseConnectivity",
      dimensions_map |-> {<<"Application", "Matomo">>}]}

\* How put_metric_data may end: accepted, or one of boto's exceptions.
SinkOutcomes == {"accepted", "ClientError", "EndpointConnectionError"}

\* Values MATOMO_URL may have in os.environ (None: the variable is absent).
EnvValues == {None, "", BaseUrl}

VARIABLES
    environ,       \* os.environ: [MATOMO_URL |-> value or None]
    pc,            \* pc[i]: where invocation i stands
    metrics_data,  \* metrics_data[i]: the handler's local list of samples
    start_time,    \* start_time[i], end_time[i]: the handler's clock readings
    end_time,
    http_calls,    \* http_calls[i]: the urlopen calls made, with the answers
    sink_calls,    \* sink_calls[i]: the put_metric_data calls made
    result         \* result[i]: what the handler returned

(* ---- app.py: the stacks of the deployment ---- *)
VARIABLES
    config,            \* the "matomo" context read by app.py
    line,              \* the statement of app.py that runs next
    stacks,            \* the stacks constructed so far
    database_stack,    \* app.py's variables of the optional stacks
    monitoring_stack,
    dependencies,      \* <<a, b>>: a.add_dependency(b) was called
    status             \* status[s]: how far the deployment of stack s is

deployVars == <<config, line, stacks, database_stack, monitoring_stack,
                dependencies, status>>

vars == <<environ, pc, metrics_data, start_time, end_time, http_calls,
          sink_calls, result, deployVars>>

NoTime == -1

NoResult == [statusCode |-> 0]

(* ------------------------------------------------------------------ *)
(* Pure parts of the handler                                           *)
(* ------------------------------------------------------------------ *)

\* A variant that tests only for absence (`matomo_url is None`).
NotSetNoneOnly(v) == v = None

\* `not matomo_url`: None and the empty string are falsy.
NotSet(v) == v = None \/ v = ""

\* urllib.request.urlopen as the handler sees it: a response object is
\* returned only for a 2xx status; every other status is raised as HTTPError
\* (HTTPErrorProcessor), and failures are raised as they come.
urlopen(a) ==
    IF a.kind = "response"
    THEN IF 200 <= a.status /\ a.status < 300
         THEN [raised |-> "none", status |-> a.status]
         ELSE [raised |-> "HTTPError", status |-> a.status]
    ELSE [raised |-> a.kind, status |-> 0]

\* A variant that tags the samples with a different dimension name.
SampleTaggedApp(name, value, unit) ==
    [MetricName |-> name, Value |-> value, Unit |-> unit,
     Dimensions |-> <<[Name |-> "App", Value |-> "Matomo"]>>]

Sample(name, value, unit) ==
    [MetricName |-> name, Value |-> value, Unit |-> unit,
     Dimensions |-> <<[Name |-> "Application", Value |-> "Matomo"]>>]

\* A variant that reports the difference of the readings as it is.
ResponseTimeSeconds(t0, t1) == t1 - t0

ResponseTimeMs(t0, t1) == (t1 - t0) * 1000

(* ---- check 1: liveness (lines 30-69) ---- *)

\* A variant whose except branch also reports a response time.
LivenessSamplesTimed(r, t0, t1) ==
    <<Sample("Availability", IF r.raised = "none" /\ r.status = 200 THEN 1 ELSE 0, "Count"),
      Sample("ResponseTime", ResponseTimeMs(t0, t1), "Milliseconds")>>

\* A variant that counts every returned response as available.
LivenessSamplesAny2xx(r, t0, t1) ==
    IF r.raised = "none"
    THEN <<Sample("Availability", 1, "Count"),
           Sample("ResponseTime", ResponseTimeMs(t0, t1), "Milliseconds")>>
    ELSE <<Sample("Availability", 0, "Count")>>

\* A variant whose except branch only logs.
LivenessSamplesSilent(r, t0, t1) ==
    IF r.raised = "none"
    THEN <<Sample("Availability", IF r.status = 200 THEN 1 ELSE 0, "Count"),
           Sample("ResponseTime", ResponseTimeMs(t0, t1), "Milliseconds")>>
    ELSE <<>>

\* The samples check 1 appends: the try body when urlopen returned, the
\* except branch otherwise.
LivenessSamples(r, t0, t1) ==
    IF r.raised = "none"
    THEN <<Sample("Availability", IF r.status = 200 THEN 1 ELSE 0, "Count"),
           Sample("ResponseTime", ResponseTimeMs(t0, t1), "Milliseconds")>>
    ELSE <<Sample("Availability", 0, "Count")>>

\* A variant whose except clause names only the urllib errors.
LivenessCatchesUrllibOnly(raised) == raised \in {"URLError", "HTTPError"}

\* except (urllib.error.URLError, urllib.error.HTTPError, Exception)
LivenessCatches(raised) == raised \in {"URLError", "HTTPError", "Exception"}

(* ---- check 2: installation complete (lines 72-112) ---- *)

\* A variant whose try body reports the status code itself.
InstallSamplesStatus(r) ==
    IF r.raised = "none"
    THEN <<Sample("InstallationComplete", r.status, "Count")>>
    ELSE IF r.raised = "HTTPError"
    THEN <<Sample("InstallationComplete", IF r.status = 403 THEN 1 ELSE 0, "Count")>>
    ELSE <<Sample("InstallationComplete", 0, "Count")>>

\* A variant that takes any auth rejection as proof of the config file.
InstallSamplesAuth(r) ==
    IF r.raised = "none"
    THEN <<Sample("InstallationComplete", IF r.status \in {403, 200} THEN 1 ELSE 0, "Count")>>
    ELSE IF r.raised = "HTTPError"
    THEN <<Sample("InstallationComplete", IF r.status \in {401, 403} THEN 1 ELSE 0, "Count")>>
    ELSE <<Sample("InstallationComplete", 0, "Count")>>

\* A variant whose generic except branch reports 1.
InstallSamplesOptimistic(r) ==
    IF r.raised = "none"
    THEN <<Sample("InstallationComplete", IF r.status \in {403, 200} THEN 1 ELSE 0, "Count")>>
    ELSE IF r.raised = "HTTPError"
    THEN <<Sample("InstallationComplete", IF r.status = 403 THEN 1 ELSE 0, "Count")>>
    ELSE <<Sample("InstallationComplete", 1, "Count")>>

\* try body, except HTTPError branch, except Exception branch.
InstallSamples(r) ==
    IF r.raised = "none"
    THEN <<Sample("InstallationComplete", IF r.status \in {403, 200} THEN 1 ELSE 0, "Count")>>
    ELSE IF r.raised = "HTTPError"
    THEN <<Sample("InstallationComplete", IF r.status = 403 THEN 1 ELSE 0, "Count")>>
    ELSE <<Sample("InstallationComplete", 0, "Count")>>

\* except urllib.error.HTTPError / except Exception
InstallCatches(raised) == raised \in {"HTTPError", "URLError", "Exception"}

(* ---- check 3: database connectivity (lines 115-156) ---- *)

\* A variant whose generic except branch leaves the dimensions out.
DatabaseSamplesBareError(r) ==
    IF r.raised = "none"
    THEN <<Sample("DatabaseConnectivity", IF r.status \in {200, 401, 403} THEN 1 ELSE 0, "Count")>>
    ELSE IF r.raised = "HTTPError"
    THEN <<Sample("DatabaseConnectivity", IF r.status \in {401, 403} THEN 1 ELSE 0, "Count")>>
    ELSE <<[MetricName |-> "DatabaseConnectivity", Value |-> 0, Unit |-> "Count",
            Dimensions |-> <<>>]>>

\* A variant whose HTTPError branch accepts 403 only.
DatabaseSamples403Only(r) ==
    IF r.raised = "none"
    THEN <<Sample("DatabaseConnectivity", IF r.status \in {200, 401, 403} THEN 1 ELSE 0, "Count")>>
    ELSE IF r.raised = "HTTPError"
    THEN <<Sample("DatabaseConnectivity", IF r.status = 403 THEN 1 ELSE 0, "Count")>>
    ELSE <<Sample("DatabaseConnectivity", 0, "Count")>>

\* try body, except HTTPError branch, except Exception branch.
DatabaseSamples(r) ==
    IF r.raised = "none"
    THEN <<Sample("DatabaseConnectivity", IF r.status \in {200, 401, 403} THEN 1 ELSE 0, "Count")>>
    ELSE IF r.raised = "HTTPError"
    THEN <<Sample("DatabaseConnectivity", IF r.status \in {401, 403} THEN 1 ELSE 0, "Count")>>
    ELSE <<Sample("DatabaseConnectivity", 0, "Count")>>

\* A variant of check 3 without the generic except clause.
DatabaseCatchesHttpOnly(raised) == raised = "HTTPError"

\* except urllib.error.HTTPError / except Exception
DatabaseCatches(raised) == raised \in {"HTTPError", "URLError", "Exception"}

(* ---- URLs ---- *)

config_check_url(matomo_url) == matomo_url \o "/config/config.ini.php"

api_url(matomo_url) ==
    matomo_url \o "/index.php?module=API&method=SitesManager.getSitesWithViewAccess&format=json&token_auth=anonymous"

(* ---- results ---- *)

MetricNames(md) == [k \in 1..Len(md) |-> md[k].MetricName]

NotConfigured == [statusCode |-> 400, body |-> [text |-> "MATOMO_URL not configured"]]

SendFailed(e) ==
    [statusCode |-> 500, body |-> [text |-> "Failed to send metrics", error |-> e]]

\* A variant that always lists the four metric names.
CollectedAllNames(md) ==
    [statusCode |-> 200,
     body |-> [message |-> "Successfully collected Matomo metrics",
               count |-> Len(md),
               metrics |-> <<"Availability", "ResponseTime", "InstallationComplete",
                             "DatabaseConnectivity">>]]

Collected(md) ==
    [statusCode |-> 200,
     body |-> [message |-> "Successfully collected Matomo metrics",
               count |-> Len(md), metrics |-> MetricNames(md)]]

\* The outer `except Exception` of the handler (lines 178-180).
Unexpected(e) ==
    [statusCode |-> 500, body |-> [text |-> "Unexpected error", error |-> e]]

(* ------------------------------------------------------------------ *)
(* app.py: configuration and stacks                                    *)
(* ------------------------------------------------------------------ *)

StackNames == {"networking", "database", "compute", "monitoring"}

Flags == {"enableDatabase", "enableMonitoring"}

\* app.node.try_get_context("matomo") or {}: a dict in which either flag
\* may be missing, false or true.
Contexts == UNION {[K -> BOOLEAN] : K \in SUBSET Flags}

\* dict.get(key, default)
get(c, key, default) == IF key \in DOMAIN c THEN c[key] ELSE default

enable_database == get(config, "enableDatabase", FALSE)

enable_monitoring == get(config, "enableMonitoring", FALSE)

\* The deployment the handler runs in: all four stacks, deployed.
Installed ==
    /\ config = [enableDatabase |-> TRUE, enableMonitoring |-> TRUE]
    /\ line = "synthesized"
    /\ stacks = StackNames
    /\ database_stack = "database"
    /\ monitoring_stack = "monitoring"
    /\ dependencies = {<<"monitoring", "compute">>, <<"monitoring", "database">>,
                       <<"compute", "database">>, <<"compute", "networking">>}
    /\ status = [s \in StackNames |-> "complete"]

(* ------------------------------------------------------------------ *)
(* The state machine                                                   *)
(* ------------------------------------------------------------------ *)

\* No invocation has run yet; the deployment has fixed MATOMO_URL.
Init ==
    /\ Installed
    /\ environ \in [MATOMO_URL : EnvValues]
    /\ pc = [i \in Invocations |-> "idle"]
    /\ metrics_data = [i \in Invocations |-> <<>>]
    /\ start_time = [i \in Invocations |-> NoTime]
    /\ end_time = [i \in Invocations |-> NoTime]
    /\ http_calls = [i \in Invocations |-> <<>>]
    /\ sink_calls = [i \in Invocations |-> <<>>]
    /\ result = [i \in Invocations |-> NoResult]

\* The scheduler calls lambda_handler: a fresh frame, then lines 19-27.
Invoke(i) ==
    /\ pc[i] \in {"idle", "done"}
    /\ metrics_data' = [metrics_data EXCEPT ![i] = <<>>]
    /\ start_time' = [start_time EXCEPT ![i] = NoTime]
    /\ end_time' = [end_time EXCEPT ![i] = NoTime]
    /\ http_calls' = [http_calls EXCEPT ![i] = <<>>]
    /\ sink_calls' = [sink_calls EXCEPT ![i] = <<>>]
    /\ IF NotSet(environ.MATOMO_URL)
       THEN /\ result' = [result EXCEPT ![i] = NotConfigured]
            /\ pc' = [pc EXCEPT ![i] = "done"]
       ELSE /\ result' = [result EXCEPT ![i] = NoResult]
            /\ pc' = [pc EXCEPT ![i] = "liveness"]
    /\ UNCHANGED <<deployVars, environ, deployVars>>

\* A variant that repeats a request once when it failed below HTTP.
CheckBlockRetrying(i, next, url, timeout, a, caught, samples) ==
    /\ http_calls' = [http_calls EXCEPT
                        ![i] = IF a.kind = "URLError"
                               THEN @ \o <<[url |-> url, timeout |-> timeout, answer |-> a],
                                           [url |-> url, timeout |-> timeout, answer |-> a]>>
                               ELSE Append(@, [url |-> url, timeout |-> timeout, answer |-> a])]
    /\ IF caught
       THEN /\ metrics_data' = [metrics_data EXCEPT ![i] = @ \o samples]
            /\ pc' = [pc EXCEPT ![i] = next]
            /\ UNCHANGED result
       ELSE /\ result' = [result EXCEPT ![i] = Unexpected(urlopen(a).raised)]
            /\ pc' = [pc EXCEPT ![i] = "done"]
            /\ UNCHANGED metrics_data
    /\ UNCHANGED <<deployVars, environ, sink_calls>>

\* A variant in which the list of samples is one module-level list that
\* every running invocation appends to.
CheckBlockShared(i, next, url, timeout, a, caught, samples) ==
    /\ http_calls' = [http_calls EXCEPT
                        ![i] = Append(@, [url |-> url, timeout |-> timeout, answer |-> a])]
    /\ IF caught
       THEN /\ metrics_data' = [j \in Invocations |->
                                   IF j = i \/ pc[j] \in {"install", "database", "send"}
                                   THEN metrics_data[j] \o samples
                                   ELSE metrics_data[j]]
            /\ pc' = [pc EXCEPT ![i] = next]
            /\ UNCHANGED result
       ELSE /\ result' = [result EXCEPT ![i] = Unexpected(urlopen(a).raised)]
            /\ pc' = [pc EXCEPT ![i] = "done"]
            /\ UNCHANGED metrics_data
    /\ UNCHANGED <<deployVars, environ, sink_calls>>

\* One check block: the urlopen call is made and answered by a; when the
\* block's except clauses catch what was raised (or nothing was raised) the
\* samples are appended and control falls through to the next block,
\* otherwise the exception reaches the handler's outer except.
CheckBlock(i, next, url, timeout, a, caught, samples) ==
    /\ http_calls' = [http_calls EXCEPT
                        ![i] = Append(@, [url |-> url, timeout |-> timeout, answer |-> a])]
    /\ IF caught
       THEN /\ metrics_data' = [metrics_data EXCEPT ![i] = @ \o samples]
            /\ pc' = [pc EXCEPT ![i] = next]
            /\ UNCHANGED result
       ELSE /\ result' = [result EXCEPT ![i] = Unexpected(urlopen(a).raised)]
            /\ pc' = [pc EXCEPT ![i] = "done"]
            /\ UNCHANGED metrics_data
    /\ UNCHANGED <<deployVars, environ, sink_calls>>

\* Lines 30-69.
LivenessCheck(i) ==
    /\ pc[i] = "liveness"
    /\ \E a \in Answers, t0 \in Clock, t1 \in Clock :
         LET r == urlopen(a) IN
         /\ start_time' = [start_time EXCEPT ![i] = t0]
         /\ end_time' = [end_time EXCEPT ![i] = IF r.raised = "none" THEN t1 ELSE @]
         /\ CheckBlock(i, "install", environ.MATOMO_URL, LivenessTimeout, a,
                       r.raised = "none" \/ LivenessCatches(r.raised),
                       LivenessSamples(r, t0, t1))

\* A variant that skips the config request when the site was found down
\* and reports the installation as incomplete.
InstallCheckGated(i) ==
    /\ pc[i] = "install"
    /\ \E a \in Answers :
         LET r == urlopen(a)
             down == \E k \in 1..Len(metrics_data[i]) :
                        /\ metrics_data[i][k].MetricName = "Availability"
                        /\ metrics_data[i][k].Value = 0
         IN  CheckBlock(i, "database", config_check_url(environ.MATOMO_URL), InstallTimeout, a,
                        r.raised = "none" \/ InstallCatches(r.raised),
                        IF down THEN <<Sample("InstallationComplete", 0, "Count")>>
                        ELSE InstallSamples(r))
    /\ UNCHANGED <<start_time, end_time>>

\* Lines 72-112.
InstallCheck(i) ==
    /\ pc[i] = "install"
    /\ \E a \in Answers :
         LET r == urlopen(a) IN
         CheckBlock(i, "database", config_check_url(environ.MATOMO_URL), InstallTimeout, a,
                    r.raised = "none" \/ InstallCatches(r.raised),
                    InstallSamples(r))
    /\ UNCHANGED <<start_time, end_time>>

\* Lines 115-156.
DatabaseCheck(i) ==
    /\ pc[i] = "database"
    /\ \E a \in Answers :
         LET r == urlopen(a) IN
         CheckBlock(i, "send", api_url(environ.MATOMO_URL), DatabaseTimeout, a,
                    r.raised = "none" \/ DatabaseCatches(r.raised),
                    DatabaseSamples(r))
    /\ UNCHANGED <<start_time, end_time>>

\* A variant that runs the whole collection again when the sink rejected.
SendMetricsRestarting(i) ==
    /\ pc[i] = "send"
    /\ \E o \in SinkOutcomes :
         IF o = "accepted"
         THEN /\ sink_calls' = [sink_calls EXCEPT
                     ![i] = Append(@, [Namespace |-> Namespace,
                                       MetricData |-> metrics_data[i],
                                       outcome |-> o])]
              /\ result' = [result EXCEPT ![i] = Collected(metrics_data[i])]
              /\ pc' = [pc EXCEPT ![i] = "done"]
              /\ UNCHANGED <<metrics_data, http_calls, start_time, end_time>>
         ELSE /\ sink_calls' = [sink_calls EXCEPT ![i] = <<>>]
              /\ metrics_data' = [metrics_data EXCEPT ![i] = <<>>]
              /\ http_calls' = [http_calls EXCEPT ![i] = <<>>]
              /\ start_time' = [start_time EXCEPT ![i] = NoTime]
              /\ end_time' = [end_time EXCEPT ![i] = NoTime]
              /\ pc' = [pc EXCEPT ![i] = "liveness"]
              /\ UNCHANGED result
    /\ UNCHANGED <<deployVars, environ, deployVars>>

\* A variant that sends every sample in a call of its own.
SendMetricsOneByOne(i) ==
    /\ pc[i] = "send"
    /\ \E o \in SinkOutcomes :
         /\ sink_calls' = [sink_calls EXCEPT
                ![i] = @ \o [k \in 1..Len(metrics_data[i]) |->
                               [Namespace |-> Namespace,
                                MetricData |-> <<metrics_data[i][k]>>,
                                outcome |-> o]]]
         /\ result' = [result EXCEPT
                ![i] = IF o = "accepted" THEN Collected(metrics_data[i]) ELSE SendFailed(o)]
    /\ pc' = [pc EXCEPT ![i] = "done"]
    /\ UNCHANGED <<deployVars, environ, metrics_data, start_time, end_time, http_calls>>

\* A variant that calls the sink again after a rejection.
SendMetricsRetrying(i) ==
    /\ pc[i] = "send"
    /\ \E o \in SinkOutcomes :
         /\ sink_calls' = [sink_calls EXCEPT
                ![i] = Append(@, [Namespace |-> Namespace,
                                  MetricData |-> metrics_data[i],
                                  outcome |-> o])]
         /\ IF o = "accepted" \/ Len(sink_calls[i]) >= 1
            THEN /\ result' = [result EXCEPT
                        ![i] = IF o = "accepted" THEN Collected(metrics_data[i])
                               ELSE SendFailed(o)]
                 /\ pc' = [pc EXCEPT ![i] = "done"]
            ELSE UNCHANGED <<result, pc>>
    /\ UNCHANGED <<deployVars, environ, metrics_data, start_time, end_time, http_calls>>

\* Lines 158-176: one put_metric_data call with the whole list, then the
\* return value.
SendMetrics(i) ==
    /\ pc[i] = "send"
    /\ IF metrics_data[i] # <<>>
       THEN \E o \in SinkOutcomes :
              /\ sink_calls' = [sink_calls EXCEPT
                     ![i] = Append(@, [Namespace |-> Namespace,
                                       MetricData |-> metrics_data[i],
                                       outcome |-> o])]
              /\ result' = [result EXCEPT
                     ![i] = IF o = "accepted" THEN Collected(metrics_data[i])
                            ELSE SendFailed(o)]
       ELSE /\ result' = [result EXCEPT ![i] = Collected(metrics_data[i])]
            /\ UNCHANGED sink_calls
    /\ pc' = [pc EXCEPT ![i] = "done"]
    /\ UNCHANGED <<deployVars, environ, metrics_data, start_time, end_time, http_calls>>

Next ==
    \E i \in Sequential :
        \/ Invoke(i)
        \/ LivenessCheck(i)
        \/ InstallCheck(i)
        \/ DatabaseCheck(i)
        \/ SendMetrics(i)

Spec == Init /\ [][Next]_vars

\* A started handler runs on: the interpreter executes the next statement,
\* and every outbound call returns, raises or times out.  The scheduler is
\* under no obligation to invoke again.
Fairness ==
    \A i \in Sequential :
        /\ WF_vars(LivenessCheck(i))
        /\ WF_vars(InstallCheck(i))
        /\ WF_vars(DatabaseCheck(i))
        /\ WF_vars(SendMetrics(i))

SpecFair == Spec /\ Fairness

(* ---- overlapping invocations ---- *)

\* The answers, sink outcomes and first clock reading the overlapping
\* specification draws from: a 200, a 403 (which the three checks read
\* differently) and a network failure; acceptance and one rejection.
ConcAnswers ==
    {[kind |-> "response", status |-> 200],
     [kind |-> "response", status |-> 403],
     [kind |-> "URLError", status |-> 0]}

ConcSinkOutcomes == {"accepted", "ClientError"}

Narrow ==
    \A i \in Invocations :
        /\ \A n \in 1..Len(http_calls[i]) : http_calls[i][n].answer \in ConcAnswers
        /\ \A k \in 1..Len(sink_calls[i]) : sink_calls[i][k].outcome \in ConcSinkOutcomes
        /\ start_time[i] \in {NoTime, 0}

\* The scheduler does not wait for one invocation to return before it starts
\* the next: the steps of the two frames interleave freely.
NextConc ==
    \E i \in Invocations :
        \/ Invoke(i)
        \/ LivenessCheck(i) /\ Narrow'
        \/ InstallCheck(i) /\ Narrow'
        \/ DatabaseCheck(i) /\ Narrow'
        \/ SendMetrics(i) /\ Narrow'

SpecConc == Init /\ [][NextConc]_vars

(* ---- app.py, statement by statement, and the deployment ---- *)

\* Before app.py runs: no stack exists and no function is installed.
InitDeploy ==
    /\ config \in Contexts
    /\ line = "networking"
    /\ stacks = {}
    /\ database_stack = None
    /\ monitoring_stack = None
    /\ dependencies = {}
    /\ status = [s \in StackNames |-> "none"]
    /\ environ = [MATOMO_URL |-> None]
    /\ pc = [i \in Invocations |-> "idle"]
    /\ metrics_data = [i \in Invocations |-> <<>>]
    /\ start_time = [i \in Invocations |-> NoTime]
    /\ end_time = [i \in Invocations |-> NoTime]
    /\ http_calls = [i \in Invocations |-> <<>>]
    /\ sink_calls = [i \in Invocations |-> <<>>]
    /\ result = [i \in Invocations |-> NoResult]

handlerVars == <<pc, metrics_data, start_time, end_time, http_calls,
                 sink_calls, result>>

\* networking_stack = NetworkingStack(...)
CreateNetworking ==
    /\ line = "networking"
    /\ stacks' = stacks \cup {"networking"}
    /\ line' = "database"
    /\ UNCHANGED <<config, database_stack, monitoring_stack, dependencies,
                   status, environ, handlerVars>>

\* database_stack = None; if enable_database: database_stack = DatabaseStack(...)
CreateDatabase ==
    /\ line = "database"
    /\ IF enable_database
       THEN /\ database_stack' = "database"
            /\ stacks' = stacks \cup {"database"}
       ELSE /\ database_stack' = None
            /\ UNCHANGED stacks
    /\ line' = "compute"
    /\ UNCHANGED <<config, monitoring_stack, dependencies, status, environ,
                   handlerVars>>

\* compute_stack = ComputeStack(..., database_stack=database_stack, ...)
CreateCompute ==
    /\ line = "compute"
    /\ stacks' = stacks \cup {"compute"}
    /\ line' = "monitoring"
    /\ UNCHANGED <<config, database_stack, monitoring_stack, dependencies,
                   status, environ, handlerVars>>

\* A variant that forgets monitoring_stack.add_dependency(compute_stack).
CreateMonitoringUnordered ==
    /\ line = "monitoring"
    /\ IF enable_monitoring
       THEN /\ monitoring_stack' = "monitoring"
            /\ stacks' = stacks \cup {"monitoring"}
            /\ dependencies' = dependencies \cup
                   (IF database_stack # None
                    THEN {<<"monitoring", database_stack>>} ELSE {})
       ELSE /\ monitoring_stack' = None
            /\ UNCHANGED <<stacks, dependencies>>
    /\ line' = "dependencies"
    /\ UNCHANGED <<config, database_stack, status, environ, handlerVars>>

\* monitoring_stack = None; if enable_monitoring: MonitoringStack(...), then
\* its add_dependency calls.
CreateMonitoring ==
    /\ line = "monitoring"
    /\ IF enable_monitoring
       THEN /\ monitoring_stack' = "monitoring"
            /\ stacks' = stacks \cup {"monitoring"}
            /\ dependencies' = dependencies \cup {<<"monitoring", "compute">>} \cup
                   (IF database_stack # None
                    THEN {<<"monitoring", database_stack>>} ELSE {})
       ELSE /\ monitoring_stack' = None
            /\ UNCHANGED <<stacks, dependencies>>
    /\ line' = "dependencies"
    /\ UNCHANGED <<config, database_stack, status, environ, handlerVars>>

\* if database_stack: compute_stack.add_dependency(database_stack)
\* compute_stack.add_dependency(networking_stack)
AddComputeDependencies ==
    /\ line = "dependencies"
    /\ dependencies' = dependencies \cup {<<"compute", "networking">>} \cup
           (IF database_stack # None
            THEN {<<"compute", database_stack>>} ELSE {})
    /\ line' = "synth"
    /\ UNCHANGED <<config, stacks, database_stack, monitoring_stack, status,
                   environ, handlerVars>>

\* app.synth(): the stacks constructed are the ones handed to the deployment.
synth ==
    /\ line = "synth"
    /\ status' = [s \in StackNames |-> IF s \in stacks THEN "pending" ELSE "none"]
    /\ line' = "synthesized"
    /\ UNCHANGED <<config, stacks, database_stack, monitoring_stack,
                   dependencies, environ, handlerVars>>

\* The deployment starts a stack once every stack it depends on is complete;
\* stacks that do not depend on each other may be in progress together.
StartDeploy(s) ==
    /\ line = "synthesized"
    /\ status[s] = "pending"
    /\ \A d \in StackNames : <<s, d>> \in dependencies => status[d] = "complete"
    /\ status' = [status EXCEPT ![s] = "in_progress"]
    /\ UNCHANGED <<config, line, stacks, database_stack, monitoring_stack,
                   dependencies, environ, handlerVars>>

\* A stack completes; the monitoring stack installs the function with
\* MATOMO_URL set to the instance's address.
FinishDeploy(s) ==
    /\ line = "synthesized"
    /\ status[s] = "in_progress"
    /\ status' = [status EXCEPT ![s] = "complete"]
    /\ environ' = IF s = "monitoring" THEN [MATOMO_URL |-> BaseUrl] ELSE environ
    /\ UNCHANGED <<config, line, stacks, database_stack, monitoring_stack,
                   dependencies, handlerVars>>

NextDeploy ==
    \/ CreateNetworking
    \/ CreateDatabase
    \/ CreateCompute
    \/ CreateMonitoring
    \/ AddComputeDependencies
    \/ synth
    \/ \E s \in StackNames : StartDeploy(s)
    \/ \E s \in StackNames : FinishDeploy(s)

SpecDeploy == InitDeploy /\ [][NextDeploy]_vars

(* ------------------------------------------------------------------ *)
(* Properties                                                          *)
(* ------------------------------------------------------------------ *)

Configured == environ.MATOMO_URL \notin {None, ""}

Count(md, name) == Cardinality({k \in 1..Len(md) : md[k].MetricName = name})

\* The values the list holds for a metric name.
Values(md, name) == {md[k].Value : k \in {j \in 1..Len(md) : md[j].MetricName = name}}

\* Invocation i has finished check number n (1 liveness, 2 install, 3 DB).
Past(i, n) ==
    /\ Len(http_calls[i]) >= n
    /\ pc[i] \in CASE n = 1 -> {"install", "database", "send", "done"}
                   [] n = 2 -> {"database", "send", "done"}
                   [] OTHER -> {"send", "done"}

\* What the server did with request n of invocation i.
AnswerOf(i, n) == http_calls[i][n].answer

Is2xx(a) == a.kind = "response" /\ a.status \in 200..299

CheckMetric(n) ==
    CASE n = 1 -> "Availability"
      [] n = 2 -> "InstallationComplete"
      [] OTHER -> "DatabaseConnectivity"

OneOfEach(md) ==
    /\ Count(md, "Availability") = 1
    /\ Count(md, "InstallationComplete") = 1
    /\ Count(md, "DatabaseConnectivity") = 1
    /\ Count(md, "ResponseTime") <= 1
    /\ Len(md) \in {3, 4}

\* C1: in every invocation with MATOMO_URL configured, whatever the three
\* requests did, the batch built for the sink (the list once the checks are
\* over, and the MetricData of every put_metric_data call) holds exactly one
\* Availability, one InstallationComplete and one DatabaseConnectivity sample
\* and at most one ResponseTime sample: 3 or 4 samples, never none.
C1_BatchShape ==
    Configured =>
        \A i \in Invocations :
            /\ pc[i] \in {"send", "done"} => OneOfEach(metrics_data[i])
            /\ \A k \in 1..Len(sink_calls[i]) : OneOfEach(sink_calls[i][k].MetricData)

\* All three requests failed below HTTP and the batch of three went out.
C1_Witness ==
    /\ pc[1] = "done"
    /\ Len(http_calls[1]) = 3
    /\ \A n \in 1..3 : AnswerOf(1, n).kind # "response"
    /\ Len(sink_calls[1]) = 1
    /\ Len(sink_calls[1][1].MetricData) = 3

\* C2: the checks are isolated.  Whatever one check's request did, once the
\* handler is past check n it has issued the requests of checks 1..n, to
\* their three URLs in order, and holds the sample of each of them; it
\* reaches the send step only with all three requests issued and all three
\* samples appended.
C2_Isolation ==
    Configured =>
        \A i \in Invocations :
            /\ pc[i] = "install" => Len(http_calls[i]) = 1
            /\ pc[i] = "database" => Len(http_calls[i]) = 2
            /\ pc[i] \in {"send", "done"} => Len(http_calls[i]) = 3
            /\ \A n \in 1..Len(http_calls[i]) :
                 /\ http_calls[i][n].url =
                        CASE n = 1 -> environ.MATOMO_URL
                          [] n = 2 -> config_check_url(environ.MATOMO_URL)
                          [] OTHER -> api_url(environ.MATOMO_URL)
                 /\ Past(i, n) => Count(metrics_data[i], CheckMetric(n)) = 1

\* Liveness raised a non-urllib exception, install failed below HTTP, and
\* the DB check still ran and reported.
C2_Witness ==
    /\ pc[1] = "done"
    /\ Len(http_calls[1]) = 3
    /\ AnswerOf(1, 1).kind = "Exception"
    /\ AnswerOf(1, 2).kind = "URLError"
    /\ AnswerOf(1, 3) = [kind |-> "response", status |-> 200]
    /\ Values(metrics_data[1], "DatabaseConnectivity") = {1}

\* C3: a network-level failure (no HTTP response) of a check's request gives
\* that check's metric the value 0, and the invocation does not fail for it:
\* the handler returns, and returns 200 unless the sink rejected the batch.
C3_NetworkFailureIsZero ==
    Configured =>
        \A i \in Invocations : \A n \in 1..3 :
            (Past(i, n) /\ AnswerOf(i, n).kind # "response") =>
                /\ Values(metrics_data[i], CheckMetric(n)) = {0}
                /\ pc[i] = "done" =>
                     /\ Len(sink_calls[i]) = 1
                     /\ IF sink_calls[i][1].outcome = "accepted"
                        THEN result[i].statusCode = 200
                        ELSE /\ result[i].statusCode = 500
                             /\ result[i].body.text = "Failed to send metrics"

\* Every request timed out, the sink accepted, the handler returned 200.
C3_Witness ==
    /\ pc[1] = "done"
    /\ Len(http_calls[1]) = 3
    /\ \A n \in 1..3 : AnswerOf(1, n).kind = "URLError"
    /\ result[1].statusCode = 200
    /\ \A n \in 1..3 : Values(metrics_data[1], CheckMetric(n)) = {0}

\* The liveness samples of invocation i hold availability v and, when rt is
\* TRUE, exactly one ResponseTime sample with the elapsed milliseconds.
LivenessBatchIs(i, v, rt) ==
    /\ Values(metrics_data[i], "Availability") = {v}
    /\ IF rt
       THEN /\ Count(metrics_data[i], "ResponseTime") = 1
            /\ Values(metrics_data[i], "ResponseTime") =
                   {(end_time[i] - start_time[i]) * 1000}
       ELSE Count(metrics_data[i], "ResponseTime") = 0

\* C4 as stated: whenever the GET to the base URL receives an HTTP response
\* of any status code, error statuses included, the batch holds
\* Availability = 1 if the status is exactly 200 and 0 otherwise, and holds
\* a ResponseTime sample with the elapsed milliseconds.
C4_AnyResponseIsTimed ==
    Configured =>
        \A i \in Invocations :
            (Past(i, 1) /\ AnswerOf(i, 1).kind = "response") =>
                LivenessBatchIs(i, IF AnswerOf(i, 1).status = 200 THEN 1 ELSE 0, TRUE)

\* C4 (amended): whenever the GET to the base URL receives an HTTP response,
\* the batch holds Availability = 1 if the status is exactly 200 and 0
\* otherwise; when the status is a 2xx one, so that urlopen returns the
\* response instead of raising HTTPError, the batch also holds a
\* ResponseTime sample with the elapsed milliseconds.
C4_ReturnedResponseIsTimed ==
    Configured =>
        \A i \in Invocations :
            (Past(i, 1) /\ AnswerOf(i, 1).kind = "response") =>
                /\ Values(metrics_data[i], "Availability") =
                       {IF AnswerOf(i, 1).status = 200 THEN 1 ELSE 0}
                /\ Is2xx(AnswerOf(i, 1)) =>
                       LivenessBatchIs(i, IF AnswerOf(i, 1).status = 200 THEN 1 ELSE 0, TRUE)

\* A 204 came back: not available, yet timed (here 2 s after the start).
C4_Witness ==
    /\ Past(1, 1)
    /\ AnswerOf(1, 1) = [kind |-> "response", status |-> 204]
    /\ metrics_data[1][1].Value = 0
    /\ Len(metrics_data[1]) >= 2
    /\ metrics_data[1][2].MetricName = "ResponseTime"
    /\ metrics_data[1][2].Value = 2000

\* C5: whenever the GET to the base URL ends in a raised error (timeout,
\* connection error, or an HTTP error status such as 500) the batch holds
\* Availability = 0 and no ResponseTime sample; a ResponseTime sample is in
\* the batch only if the liveness request returned without raising.
C5_RaisedLivenessIsUntimed ==
    Configured =>
        \A i \in Invocations :
            /\ (Past(i, 1) /\ ~Is2xx(AnswerOf(i, 1))) => LivenessBatchIs(i, 0, FALSE)
            /\ Count(metrics_data[i], "ResponseTime") > 0 =>
                   (Len(http_calls[i]) >= 1 /\ Is2xx(AnswerOf(i, 1)))

\* HTTP 500 on the base URL: the finished batch has Availability 0 first and
\* no ResponseTime.
C5_Witness ==
    /\ pc[1] = "done"
    /\ Len(http_calls[1]) = 3
    /\ AnswerOf(1, 1) = [kind |-> "response", status |-> 500]
    /\ metrics_data[1][1] = Sample("Availability", 0, "Count")
    /\ Count(metrics_data[1], "ResponseTime") = 0

\* C6: InstallationComplete = 1 exactly when the config request obtained
\* HTTP status 200 or 403, returned or raised; 0 for every other status and
\* for every non-HTTP error.
C6_InstallValue ==
    Configured =>
        \A i \in Invocations :
            Past(i, 2) =>
                Values(metrics_data[i], "InstallationComplete") =
                    {IF AnswerOf(i, 2).kind = "response" /\ AnswerOf(i, 2).status \in {200, 403}
                     THEN 1 ELSE 0}

\* The config file answered 403 and the install metric is 1.
C6_Witness ==
    /\ Past(1, 2)
    /\ AnswerOf(1, 2) = [kind |-> "response", status |-> 403]
    /\ Values(metrics_data[1], "InstallationComplete") = {1}

\* C7: DatabaseConnectivity = 1 exactly when the API request obtained HTTP
\* status 200, 401 or 403, returned or raised; 0 for every other status and
\* for every non-HTTP error.
C7_DatabaseValue ==
    Configured =>
        \A i \in Invocations :
            Past(i, 3) =>
                Values(metrics_data[i], "DatabaseConnectivity") =
                    {IF AnswerOf(i, 3).kind = "response"
                        /\ AnswerOf(i, 3).status \in {200, 401, 403}
                     THEN 1 ELSE 0}

\* The API answered 401 and the DB metric is 1.
C7_Witness ==
    /\ Past(1, 3)
    /\ AnswerOf(1, 3) = [kind |-> "response", status |-> 401]
    /\ Values(metrics_data[1], "DatabaseConnectivity") = {1}

\* C8: with MATOMO_URL missing or empty the handler returns statusCode 400
\* before any check runs: no invocation ever enters a check, no HTTP request
\* and no sink submission is made.
C8_NotConfigured ==
    environ.MATOMO_URL \in {None, ""} =>
        \A i \in Invocations :
            /\ pc[i] \in {"idle", "done"}
            /\ http_calls[i] = <<>>
            /\ sink_calls[i] = <<>>
            /\ pc[i] = "done" => result[i].statusCode = 400

\* MATOMO_URL is the empty string and the handler has returned 400.
C8_Witness ==
    /\ environ.MATOMO_URL = ""
    /\ pc[1] = "done"
    /\ result[1].statusCode = 400
    /\ http_calls[1] = <<>>

\* C9: with MATOMO_URL configured, put_metric_data is called exactly once
\* per invocation, only after all three checks are over, and its MetricData
\* is the whole list the checks built: nothing goes out while a check is
\* still to run, and nothing is sent apart or dropped.
C9_OneBatchedSubmission ==
    Configured =>
        \A i \in Invocations :
            /\ pc[i] # "done" => sink_calls[i] = <<>>
            /\ pc[i] = "done" =>
                 /\ Len(sink_calls[i]) = 1
                 /\ Len(http_calls[i]) = 3
                 /\ sink_calls[i][1].MetricData = metrics_data[i]
                 /\ \A n \in 1..3 :
                        Count(sink_calls[i][1].MetricData, CheckMetric(n)) = 1

\* One accepted call carrying all four samples.
C9_Witness ==
    /\ pc[1] = "done"
    /\ Len(sink_calls[1]) = 1
    /\ sink_calls[1][1].outcome = "accepted"
    /\ Len(sink_calls[1][1].MetricData) = 4
    /\ MetricNames(sink_calls[1][1].MetricData) =
           <<"Availability", "ResponseTime", "InstallationComplete", "DatabaseConnectivity">>

\* C10: when the sink rejects the submission the handler returns statusCode
\* 500 without retrying: that invocation made one sink call and three HTTP
\* requests, and the next invocation starts from an empty list, so every
\* batch ever submitted holds only the samples of its own invocation.
C10_RejectedNoRetry ==
    \A i \in Invocations :
        /\ (pc[i] = "done" /\ sink_calls[i] # <<>>
               /\ sink_calls[i][Len(sink_calls[i])].outcome # "accepted") =>
              /\ result[i].statusCode = 500
              /\ Len(sink_calls[i]) = 1
              /\ Len(http_calls[i]) = 3
        /\ (sink_calls[i] # <<>> /\ sink_calls[i][1].outcome # "accepted") => pc[i] = "done"
        /\ pc[i] = "liveness" => metrics_data[i] = <<>>
        /\ \A k \in 1..Len(sink_calls[i]) : Len(sink_calls[i][k].MetricData) <= 4

\* The sink raised ClientError and the handler returned 500.
C10_Witness ==
    /\ pc[1] = "done"
    /\ Len(sink_calls[1]) = 1
    /\ sink_calls[1][1].outcome = "ClientError"
    /\ result[1] = SendFailed("ClientError")

\* Invocation i has returned after the sink rejected its batch.
Rejected(i) ==
    /\ pc[i] = "done"
    /\ sink_calls[i] # <<>>
    /\ sink_calls[i][Len(sink_calls[i])].outcome # "accepted"

\* The metric names and values of a batch.
SamplesOf(md) == {<<md[k].MetricName, md[k].Value>> : k \in 1..Len(md)}

\* C11: when the sink submission fails, the failure result identifies the
\* samples (names and values) the invocation tried to submit: two failed
\* invocations that return the same result tried to submit the same samples.
C11_FailureDetailShowsSamples ==
    \A i \in Invocations, j \in Invocations :
        (Rejected(i) /\ Rejected(j) /\ result[i] = result[j]) =>
            SamplesOf(sink_calls[i][1].MetricData) = SamplesOf(sink_calls[j][1].MetricData)

\* C12: the overall outcome does not depend on what the checks measured.
\* The handler returns 200 exactly when MATOMO_URL is configured and the sink
\* accepted the batch, 400 exactly when MATOMO_URL is not configured, and 500
\* exactly when the sink rejected the batch; no answer of the three requests
\* makes it fail.
C12_OutcomeIndependentOfChecks ==
    \A i \in Invocations :
        pc[i] = "done" =>
            /\ result[i].statusCode = 200 <=>
                   (Configured /\ Len(sink_calls[i]) = 1
                       /\ sink_calls[i][1].outcome = "accepted")
            /\ result[i].statusCode = 400 <=> ~Configured
            /\ result[i].statusCode = 500 <=> Rejected(i)
            /\ result[i].statusCode \in {200, 400, 500}

\* All three metrics measured 0 and the invocation still succeeded.
C12_Witness ==
    /\ pc[1] = "done"
    /\ result[1].statusCode = 200
    /\ Len(http_calls[1]) = 3
    /\ AnswerOf(1, 1) = [kind |-> "response", status |-> 500]
    /\ AnswerOf(1, 2) = [kind |-> "response", status |-> 404]
    /\ AnswerOf(1, 3).kind = "Exception"
    /\ SamplesOf(metrics_data[1]) =
           {<<"Availability", 0>>, <<"InstallationComplete", 0>>,
            <<"DatabaseConnectivity", 0>>}

\* The batch invocation i builds when it runs alone on its own three answers
\* and its own two clock readings.
Alone(i) ==
    LET a1 == AnswerOf(i, 1)
        a2 == AnswerOf(i, 2)
        a3 == AnswerOf(i, 3)
        Datum(name, value, unit) ==
            [MetricName |-> name, Value |-> value, Unit |-> unit,
             Dimensions |-> <<[Name |-> "Application", Value |-> "Matomo"]>>]
    IN  (IF Is2xx(a1)
         THEN <<Datum("Availability", IF a1.status = 200 THEN 1 ELSE 0, "Count"),
                Datum("ResponseTime", (end_time[i] - start_time[i]) * 1000, "Milliseconds")>>
         ELSE <<Datum("Availability", 0, "Count")>>)
        \o <<Datum("InstallationComplete",
                   IF a2.kind = "response" /\ a2.status \in {200, 403} THEN 1 ELSE 0, "Count")>>
        \o <<Datum("DatabaseConnectivity",
                   IF a3.kind = "response" /\ a3.status \in {200, 401, 403} THEN 1 ELSE 0,
                   "Count")>>

\* C13: overlapping invocations do not interfere.  However the steps of two
\* invocations interleave, the list an invocation holds after its checks, the
\* batch it submits and the result it returns are those it produces alone on
\* its own three answers; nothing of the other invocation is in them.
C13_NoInterference ==
    Configured =>
        \A i \in Invocations :
            /\ pc[i] \in {"send", "done"} =>
                   (Len(http_calls[i]) = 3 /\ metrics_data[i] = Alone(i))
            /\ pc[i] = "done" =>
                   /\ Len(sink_calls[i]) = 1
                   /\ sink_calls[i][1].MetricData = Alone(i)
                   /\ sink_calls[i][1].Namespace = "Matomo/Application"
                   /\ IF sink_calls[i][1].outcome = "accepted"
                      THEN /\ result[i].statusCode = 200
                           /\ result[i].body.metrics =
                                  [k \in 1..Len(Alone(i)) |-> Alone(i)[k].MetricName]
                      ELSE /\ result[i].statusCode = 500
                           /\ result[i].body.error = sink_calls[i][1].outcome

\* Both invocations are in flight at once, on different answers.
C13_Witness ==
    /\ pc[1] = "send"
    /\ pc[2] = "database"
    /\ AnswerOf(1, 1) = [kind |-> "response", status |-> 200]
    /\ AnswerOf(2, 1).kind = "URLError"
    /\ Values(metrics_data[1], "Availability") = {1}
    /\ Values(metrics_data[2], "Availability") = {0}

\* C14: on a successful invocation the returned summary lists exactly the
\* metric names that were emitted: the 'metrics' list of the body is the
\* sequence of MetricName values of the submitted batch, and the reported
\* count is the batch length.
C14_SummaryListsEmittedNames ==
    \A i \in Invocations :
        (pc[i] = "done" /\ result[i].statusCode = 200) =>
            /\ Len(sink_calls[i]) = 1
            /\ sink_calls[i][1].outcome = "accepted"
            /\ Len(result[i].body.metrics) = Len(sink_calls[i][1].MetricData)
            /\ \A k \in 1..Len(result[i].body.metrics) :
                   result[i].body.metrics[k] = sink_calls[i][1].MetricData[k].MetricName
            /\ result[i].body.count = Len(sink_calls[i][1].MetricData)

\* A successful invocation without a ResponseTime sample lists three names.
C14_Witness ==
    /\ pc[1] = "done"
    /\ result[1].statusCode = 200
    /\ result[1].body.metrics =
           <<"Availability", "InstallationComplete", "DatabaseConnectivity">>
    /\ result[1].body.count = 3

AppDimensions == <<[Name |-> "Application", Value |-> "Matomo"]>>

\* C15: every sample, on every path (try bodies and every except branch of
\* every check), carries the dimension Application=Matomo, and every
\* submission is made under the namespace 'Matomo/Application', which is
\* none of the infrastructure namespaces.
C15_DimensionAndNamespace ==
    \A i \in Invocations :
        /\ \A k \in 1..Len(metrics_data[i]) : metrics_data[i][k].Dimensions = AppDimensions
        /\ \A c \in 1..Len(sink_calls[i]) :
             /\ sink_calls[i][c].Namespace = "Matomo/Application"
             /\ sink_calls[i][c].Namespace \notin InfraNamespaces
             /\ \A k \in 1..Len(sink_calls[i][c].MetricData) :
                    sink_calls[i][c].MetricData[k].Dimensions = AppDimensions

\* A batch built entirely by except branches went out.
C15_Witness ==
    /\ pc[1] = "done"
    /\ Len(http_calls[1]) = 3
    /\ AnswerOf(1, 1).kind = "URLError"
    /\ AnswerOf(1, 2) = [kind |-> "response", status |-> 404]
    /\ AnswerOf(1, 3).kind = "Exception"
    /\ Len(sink_calls[1]) = 1
    /\ \A k \in 1..3 : sink_calls[1][1].MetricData[k].Dimensions = AppDimensions

\* The three requests of an invocation, in order, with their timeouts.
ThreeRequests ==
    <<[url |-> environ.MATOMO_URL, timeout |-> 30],
      [url |-> environ.MATOMO_URL \o "/config/config.ini.php", timeout |-> 10],
      [url |-> environ.MATOMO_URL
                 \o "/index.php?module=API&method=SitesManager.getSitesWithViewAccess&format=json&token_auth=anonymous",
       timeout |-> 15]>>

\* C16: with MATOMO_URL configured an invocation issues exactly three GET
\* requests, one per endpoint, one after another in the order liveness,
\* install, DB: while check n is next to run exactly the n-1 requests before
\* it have been issued, and no request is repeated.
C16_ThreeRequestsInOrder ==
    Configured =>
        \A i \in Invocations :
            LET issued == [n \in 1..Len(http_calls[i]) |->
                              [url |-> http_calls[i][n].url,
                               timeout |-> http_calls[i][n].timeout]]
                expected == CASE pc[i] \in {"idle", "liveness"} -> 0
                              [] pc[i] = "install" -> 1
                              [] pc[i] = "database" -> 2
                              [] OTHER -> 3
            IN  issued = SubSeq(ThreeRequests, 1, expected)

\* The first two requests failed below HTTP and were not repeated.
C16_Witness ==
    /\ pc[1] = "done"
    /\ Len(http_calls[1]) = 3
    /\ AnswerOf(1, 1).kind = "URLError"
    /\ AnswerOf(1, 2).kind = "URLError"
    /\ http_calls[1][3].url = api_url(BaseUrl)
    /\ result[1].statusCode = 200

\* C17: every invocation ends by returning a result whose statusCode is 200,
\* 400 or 500, given that every outbound call returns, raises or times out:
\* a started handler reaches its return, also when all three checks time out.
C17_Terminates ==
    \A i \in Invocations :
        /\ [](pc[i] = "done" => result[i].statusCode \in {200, 400, 500})
        /\ (pc[i] \in {"liveness", "install", "database", "send"}) ~>
               (pc[i] = "done" /\ result[i].statusCode \in {200, 400, 500})

\* Every request timed out, the sink was unreachable too, and the handler
\* returned.
C17_Witness ==
    /\ pc[1] = "done"
    /\ Len(http_calls[1]) = 3
    /\ \A n \in 1..3 : AnswerOf(1, n).kind = "URLError"
    /\ Len(sink_calls[1]) = 1
    /\ sink_calls[1][1].outcome = "EndpointConnectionError"
    /\ result[1].statusCode = 500

\* The samples invocation i holds for the metric of check n.
SamplesFor(i, n) ==
    {metrics_data[i][k] :
        k \in {j \in 1..Len(metrics_data[i]) :
                  metrics_data[i][j].MetricName = CheckMetric(n)}}

\* C18: no check outcome crosses a check boundary.  Two invocations that got
\* the same answer to the request of one check hold the same sample (name,
\* value, unit, dimensions) for that check, whatever their other two
\* requests did.
C18_CheckDependsOnOwnAnswer ==
    \A i \in Invocations, j \in Invocations : \A n \in 1..3 :
        (Past(i, n) /\ Past(j, n) /\ AnswerOf(i, n) = AnswerOf(j, n)) =>
            SamplesFor(i, n) = SamplesFor(j, n)

\* Two invocations agree on the install answer (403) and differ on the other
\* two; both report the installation as complete.
C18_Witness ==
    /\ Past(1, 3) /\ Past(2, 3)
    /\ AnswerOf(1, 2) = [kind |-> "response", status |-> 403]
    /\ AnswerOf(2, 2) = AnswerOf(1, 2)
    /\ AnswerOf(1, 1).kind = "response" /\ AnswerOf(1, 1).status = 200
    /\ AnswerOf(2, 1).kind = "URLError"
    /\ AnswerOf(1, 3) # AnswerOf(2, 3)
    /\ SamplesFor(1, 2) = SamplesFor(2, 2)
    /\ Values(metrics_data[1], "InstallationComplete") = {1}

RECURSIVE SumTimeouts(_)
SumTimeouts(calls) ==
    IF calls = <<>> THEN 0 ELSE Head(calls).timeout + SumTimeouts(Tail(calls))

\* The longest the requests issued so far by invocation i can have taken,
\* each lasting at most its timeout (seconds).
WorstCase(i) == SumTimeouts(http_calls[i])

\* C19: the request timeouts are 30 s, 10 s and 15 s, so the three requests
\* of an invocation take at most 55 s even when each one times out, and that
\* is strictly below the function's execution timeout of 2 minutes: an
\* invocation whose checks all timed out stands at the sink submission with
\* less than the execution timeout used up.
C19_TimeoutsFitExecutionTimeout ==
    Configured =>
        \A i \in Invocations :
            /\ WorstCase(i) <= 55
            /\ WorstCase(i) < FunctionTimeout
            /\ pc[i] \in {"send", "done"} =>
                   /\ [n \in 1..3 |-> http_calls[i][n].timeout] = <<30, 10, 15>>
                   /\ WorstCase(i) = 55

\* All three requests timed out and the handler is about to call the sink.
C19_Witness ==
    /\ pc[1] = "send"
    /\ \A n \in 1..3 : AnswerOf(1, n).kind = "URLError"
    /\ WorstCase(1) = 55
    /\ sink_calls[1] = <<>>

\* The ResponseTime values invocation i holds.
ResponseTimes(i) == Values(metrics_data[i], "ResponseTime")

\* C20: a ResponseTime sample is emitted by the liveness step only; its value
\* is 1000 times the difference between the reading taken after the liveness
\* response and the reading taken before the liveness request, with no other
\* request in between, and is not negative unless the clock went backwards.
\* The install, DB and send steps change neither the sample nor the readings.
C20_ResponseTimeIsLivenessElapsed ==
    [][\A i \in Invocations :
          /\ (pc[i] = "liveness" /\ pc'[i] = "install" /\ ResponseTimes(i)' # {}) =>
                 /\ start_time'[i] \in Clock
                 /\ end_time'[i] \in Clock
                 /\ ResponseTimes(i)' = {1000 * (end_time'[i] - start_time'[i])}
                 /\ Len(http_calls'[i]) = 1
                 /\ end_time'[i] >= start_time'[i] => \A v \in ResponseTimes(i)' : v >= 0
          /\ (pc[i] # "liveness" /\ ResponseTimes(i)' # {}) =>
                 /\ ResponseTimes(i)' = ResponseTimes(i)
                 /\ start_time'[i] = start_time[i]
                 /\ end_time'[i] = end_time[i]
      ]_vars

\* The liveness response took one second; the install and DB requests that
\* followed left the sample at 1000 ms.
C20_Witness ==
    /\ pc[1] = "done"
    /\ Len(http_calls[1]) = 3
    /\ start_time[1] = 1
    /\ end_time[1] = 2
    /\ ResponseTimes(1) = {1000}

\* The metrics one put_metric_data call writes, as CloudWatch identifies a
\* metric: namespace, name and set of dimensions.
EmittedBy(call) ==
    {[namespace |-> call.Namespace,
      metric_name |-> call.MetricData[k].MetricName,
      dimensions_map |-> {<<call.MetricData[k].Dimensions[d].Name,
                            call.MetricData[k].Dimensions[d].Value>> :
                              d \in 1..Len(call.MetricData[k].Dimensions)}] :
        k \in 1..Len(call.MetricData)}

ConsumedAppMetrics == DashboardAppMetrics \cup AlarmAppMetrics

\* C22: every application metric the alarms and the dashboard read is one
\* the handler emits under the same namespace, name and dimension set: every
\* submission writes each of them except ResponseTime, and a submission made
\* after the liveness request returned writes all of them.
C22_ConsumedMetricsAreEmitted ==
    \A i \in Invocations : \A c \in 1..Len(sink_calls[i]) :
        /\ \A m \in ConsumedAppMetrics :
               m.metric_name # "ResponseTime" => m \in EmittedBy(sink_calls[i][c])
        /\ Is2xx(AnswerOf(i, 1)) => ConsumedAppMetrics \subseteq EmittedBy(sink_calls[i][c])

\* An accepted submission that writes every metric the stack reads.
C22_Witness ==
    /\ pc[1] = "done"
    /\ Len(sink_calls[1]) = 1
    /\ sink_calls[1][1].outcome = "accepted"
    /\ ConsumedAppMetrics \subseteq EmittedBy(sink_calls[1][1])
    /\ Cardinality(ConsumedAppMetrics) = 4

\* C23: in every submitted batch, and in the list while it is built, the
\* values of Availability, InstallationComplete and DatabaseConnectivity are
\* 0 or 1, for every status code and every error of the three requests.
C23_BinaryValues ==
    \A i \in Invocations :
        LET binary(md) ==
                \A k \in 1..Len(md) :
                    md[k].MetricName \in
                        {"Availability", "InstallationComplete", "DatabaseConnectivity"}
                    => md[k].Value \in {0, 1}
        IN  /\ binary(metrics_data[i])
            /\ \A c \in 1..Len(sink_calls[i]) : binary(sink_calls[i][c].MetricData)

\* A submitted batch with a 1 (200), a 0 from a returned 204 and a 1 from a
\* raised 403.
C23_Witness ==
    /\ pc[1] = "done"
    /\ Len(sink_calls[1]) = 1
    /\ AnswerOf(1, 1) = [kind |-> "response", status |-> 200]
    /\ AnswerOf(1, 2) = [kind |-> "response", status |-> 204]
    /\ AnswerOf(1, 3) = [kind |-> "response", status |-> 403]
    /\ SamplesOf(sink_calls[1][1].MetricData) \ {<<"ResponseTime", 0>>} =
           {<<"Availability", 1>>, <<"InstallationComplete", 0>>,
            <<"DatabaseConnectivity", 1>>}

RECURSIVE TransitiveClosure(_)
\* The pairs <<a, b>> with a path of one or more edges of R from a to b.
TransitiveClosure(R) ==
    LET more == R \cup {<<ef[1][1], ef[2][2]>> :
                            ef \in {p \in R \X R : p[1][2] = p[2][1]}}
    IN  IF more = R THEN R ELSE TransitiveClosure(more)

Flag(key) == key \in DOMAIN config /\ config[key]

Started(s) == status[s] \in {"in_progress", "complete"}

\* C21: for every combination of the two flags the declared dependency
\* graph has no cycle and names only constructed stacks; a disabled stack is
\* never constructed, never a dependency and never deployed, an enabled one
\* is handed to the deployment; compute starts only after networking (and
\* database, when enabled) completed, and monitoring only after compute (and
\* database, when enabled) completed.
C21_DependencyOrder ==
    /\ \A s \in StackNames : <<s, s>> \notin TransitiveClosure(dependencies)
    /\ dependencies \subseteq stacks \X stacks
    /\ \A s \in StackNames : Started(s) => s \in stacks
    /\ ~Flag("enableDatabase") => "database" \notin stacks
    /\ ~Flag("enableMonitoring") => "monitoring" \notin stacks
    /\ line \in {"synth", "synthesized"} =>
           stacks = {"networking", "compute"}
                      \cup (IF Flag("enableDatabase") THEN {"database"} ELSE {})
                      \cup (IF Flag("enableMonitoring") THEN {"monitoring"} ELSE {})
    /\ Started("compute") =>
           /\ status["networking"] = "complete"
           /\ Flag("enableDatabase") => status["database"] = "complete"
    /\ Started("monitoring") =>
           /\ status["compute"] = "complete"
           /\ Flag("enableDatabase") => status["database"] = "complete"

\* All four stacks enabled and deployed, the monitoring stack last.
C21_Witness ==
    /\ Flag("enableDatabase") /\ Flag("enableMonitoring")
    /\ line = "synthesized"
    /\ \A s \in StackNames : status[s] = "complete"
    /\ Cardinality(dependencies) = 4
    /\ environ["MATOMO_URL"] = BaseUrl

====
